---- MODULE Spec2Model ----
(***************************************************************************)
(* BeAM Value Tool (src/main.py): one POST endpoint, calculate_beam_value, *)
(* behind a pydantic form schema (BeAMFormInput).                          *)
(*                                                                         *)
(* Numbers.  The readings are Python floats.  The model draws them from    *)
(* the doubles that have at most FracBits fractional bits and represents   *)
(* such a double x by the integer x * Scale.  On these values the          *)
(* handler's products (by 18.0 or 1.0) and its difference are exact in     *)
(* double arithmetic, so the integer arithmetic below is what the code     *)
(* computes.  round(x, 2) returns the double nearest to a decimal with two *)
(* places; the model represents that result by its number of hundredths.   *)
(***************************************************************************)
EXTENDS Integers, Sequences, FiniteSets, TLC

\* Fractional bits of the modelled readings.
FracBits == 8

Scale == 2 ^ FracBits

Whole(n) == n * Scale

\* The requests the HTTP layer may process concurrently.
Requests == {"r1", "r2"}

\* The unit strings a client may send: the two of the schema and a wrong one.
Units == {"mg/dL", "mmol/L", "mol/L"}

\* The readings a client may send, as multiples of 1/Scale:
\* -1, 0, 5, 6.125, 85, 90, 110, 110 + 1/Scale, 110 + 2/Scale, 110.25, 150.
Readings ==
    { Whole(-1), 0, Whole(5), Whole(6) + Scale \div 8, Whole(85), Whole(90),
      Whole(110), Whole(110) + 1, Whole(110) + 2, Whole(110) + Scale \div 4,
      Whole(150) }

FormData == [unit : Units, bedtime_glucose : Readings, am_fasting_glucose : Readings]

\* ------------------------------------------------------------------------
\* BeAMFormInput

\* unit: Literal["mg/dL", "mmol/L"]
SchemaUnits == {"mg/dL", "mmol/L"}

\* Field(ge=0) in place of Field(gt=0).
gt0_ge(x) == x >= 0

\* Field(gt=0)
gt0(x) == x > 0

\* The schema's validation of one form.
BeAMFormInput(data) ==
    /\ data.unit \in SchemaUnits
    /\ gt0(data.bedtime_glucose)
    /\ gt0(data.am_fasting_glucose)

\* ------------------------------------------------------------------------
\* calculate_beam_value: its table, its arithmetic, its classification

\* The two factors under each other's key.
conversion_factors_swapped == ("mmol/L" :> 1) @@ ("mg/dL" :> 18)

\* A key that differs from the schema's literal in case.
conversion_factors_typo == ("mmol/l" :> 18) @@ ("mg/dL" :> 1)

conversion_factors == ("mmol/L" :> 18) @@ ("mg/dL" :> 1)

\* Python's None, and dict.get: a present value is a one-element sequence.
None == << >>

Get(table, key) == IF key \in DOMAIN table THEN << table[key] >> ELSE None

\* The conversion the wrong way round: a division by the factor.
Convert_div(reading, conversion_factor) == reading \div conversion_factor

\* data.<reading> * conversion_factor
Convert(reading, conversion_factor) == reading * conversion_factor

\* The operands exchanged: AM fasting minus bedtime.
Difference_reversed(bedtime_glucose_converted, am_fasting_glucose_converted) ==
    am_fasting_glucose_converted - bedtime_glucose_converted

\* bedtime_glucose_converted - am_fasting_glucose_converted
Difference(bedtime_glucose_converted, am_fasting_glucose_converted) ==
    bedtime_glucose_converted - am_fasting_glucose_converted

\* The literal 20 of both comparisons, in mg/dL.
Threshold == 20

Dawn == "Potential dawn phenomenon; consider adjusting insulin/medication."
Hypo == "Potential nocturnal hypoglycemia; consider dietary adjustments."
WellControlled == "Overnight glucose levels are well-controlled."

\* The comparisons made inclusive (>= 20, <= -20).
Interpret_inclusive(beam_value) ==
    IF beam_value >= Whole(Threshold) THEN Dawn
    ELSE IF beam_value <= Whole(-Threshold) THEN Hypo
    ELSE WellControlled

\* A last branch that tests the open interval and leaves +-20 without a label.
Interpret_gap(beam_value) ==
    IF beam_value > Whole(Threshold) THEN Dawn
    ELSE IF beam_value < Whole(-Threshold) THEN Hypo
    ELSE IF beam_value > Whole(-Threshold) /\ beam_value < Whole(Threshold)
         THEN WellControlled
    ELSE ""

\* if beam_value > 20 ... elif beam_value < -20 ... else ...
\* (beam_value is the unrounded difference, a multiple of 1/Scale)
Interpret(beam_value) ==
    IF beam_value > Whole(Threshold) THEN Dawn
    ELSE IF beam_value < Whole(-Threshold) THEN Hypo
    ELSE WellControlled

\* Rounding half up, floor(100 * x + 0.5) / 100, in place of round(x, 2).
Round2_half_up(beam_value) == (200 * beam_value + Scale) \div (2 * Scale)

\* round(beam_value, 2): the nearest number of hundredths, a tie going to the
\* even one (Python rounds the exact value of the double half to even).
Round2(beam_value) ==
    LET q   == 100 * beam_value
        lo  == q \div Scale
        rem == q % Scale
    IN  IF 2 * rem < Scale THEN lo
        ELSE IF 2 * rem > Scale THEN lo + 1
        ELSE IF lo % 2 = 0 THEN lo ELSE lo + 1

\* The variable kept at module level, one for all calls, instead of in the frame.
StoreShared(frames, r, value) == [q \in DOMAIN frames |-> value]

\* An assignment to a local variable of one call's frame.
StoreLocal(frames, r, value) == [frames EXCEPT ![r] = value]

\* ------------------------------------------------------------------------
\* State

VARIABLES
    pc,                 \* where each request is
    data,               \* the form each request carries
    conversion_factor,  \* the handler's local of that name, per call
    beam_value,         \* the handler's local of that name (unrounded), per call
    response            \* what the client of each request gets

vars == << pc, data, conversion_factor, beam_value, response >>

NoData == [unit |-> "", bedtime_glucose |-> 0, am_fasting_glucose |-> 0]

Pending == [status |-> 0]

Init ==
    /\ pc = [r \in Requests |-> "idle"]
    /\ data = [r \in Requests |-> NoData]
    /\ conversion_factor = [r \in Requests |-> None]
    /\ beam_value = [r \in Requests |-> 0]
    /\ response = [r \in Requests |-> Pending]

\* A form arrives and the framework builds BeAMFormInput from it: a form the
\* schema refuses is answered with a validation error and the handler is not
\* called; otherwise the handler is called with the data.
Submit(r, form) ==
    /\ pc[r] = "idle"
    /\ data' = [data EXCEPT ![r] = form]
    /\ IF BeAMFormInput(form)
       THEN /\ pc' = [pc EXCEPT ![r] = "called"]
            /\ UNCHANGED response
       ELSE /\ pc' = [pc EXCEPT ![r] = "rejected"]
            /\ response' = [response EXCEPT ![r] =
                               [status |-> 422, detail |-> "validation error"]]
    /\ UNCHANGED << conversion_factor, beam_value >>

\* conversion_factor = conversion_factors.get(data.unit), and the raise.
Lookup(r) ==
    /\ pc[r] = "called"
    /\ LET found == Get(conversion_factors, data[r].unit)
       IN  /\ conversion_factor' = StoreLocal(conversion_factor, r, found)
           /\ IF found = None
              THEN /\ pc' = [pc EXCEPT ![r] = "raised"]
                   /\ response' = [response EXCEPT ![r] =
                          [status |-> 400,
                           detail |-> "Invalid unit. Must be 'mg/dL' or 'mmol/L'."]]
              ELSE /\ pc' = [pc EXCEPT ![r] = "converting"]
                   /\ UNCHANGED response
    /\ UNCHANGED << data, beam_value >>

\* The conversion, the difference, the classification and the return.
Compute(r) ==
    /\ pc[r] = "converting"
    /\ LET factor == conversion_factor[r][1]
           bedtime_glucose_converted == Convert(data[r].bedtime_glucose, factor)
           am_fasting_glucose_converted == Convert(data[r].am_fasting_glucose, factor)
           value == Difference(bedtime_glucose_converted, am_fasting_glucose_converted)
       IN  /\ beam_value' = StoreLocal(beam_value, r, value)
           /\ response' = [response EXCEPT ![r] =
                  [status |-> 200,
                   beam_value |-> Round2(value),
                   interpretation |-> Interpret(value)]]
    /\ pc' = [pc EXCEPT ![r] = "done"]
    /\ UNCHANGED << data, conversion_factor >>

Next ==
    \/ \E r \in Requests, form \in FormData : Submit(r, form)
    \/ \E r \in Requests : Lookup(r)
    \/ \E r \in Requests : Compute(r)

Spec == Init /\ [][Next]_vars

\* The handler is straight-line code run to its end by the server's worker:
\* a call that has started takes its next step.
FairSpec == Spec /\ \A r \in Requests : WF_vars(Lookup(r)) /\ WF_vars(Compute(r))

\* ------------------------------------------------------------------------
\* Properties

Labels == {Dawn, Hypo, WellControlled}

Succeeded(r) == pc[r] = "done"

\* The difference of the two readings in mg/dL, from the request alone.
ConvertedDifference(form) ==
    IF form.unit = "mmol/L"
    THEN 18 * form.bedtime_glucose - 18 * form.am_fasting_glucose
    ELSE form.bedtime_glucose - form.am_fasting_glucose

\* The label the thresholds give to a returned value (in hundredths).
LabelOfReturned(hundredths) ==
    IF hundredths > 100 * Threshold THEN Dawn
    ELSE IF hundredths < -100 * Threshold THEN Hypo
    ELSE WellControlled

Mirror(label) ==
    IF label = Dawn THEN Hypo ELSE IF label = Hypo THEN Dawn ELSE label

\* C1: in every successful response the interpretation is the classification
\* of the returned, rounded beam_value (rounding before classification).
C1_LabelOfReturnedValue ==
    \A r \in Requests :
        Succeeded(r) =>
            response[r].interpretation = LabelOfReturned(response[r].beam_value)

\* C2: with unit mg/dL the returned beam_value is round(a - b, 2), bedtime
\* minus AM fasting; 150 and 85 give 65.0 and the dawn-phenomenon label.
C2_MgdL ==
    \A r \in Requests :
        (Succeeded(r) /\ data[r].unit = "mg/dL") =>
            /\ response[r].beam_value =
                   Round2(data[r].bedtime_glucose - data[r].am_fasting_glucose)
            /\ (data[r].bedtime_glucose = Whole(150)
                    /\ data[r].am_fasting_glucose = Whole(85)) =>
                   /\ response[r].beam_value = 6500
                   /\ response[r].interpretation = Dawn

C2_Witness ==
    \E r \in Requests :
        /\ Succeeded(r)
        /\ data[r] = [unit |-> "mg/dL", bedtime_glucose |-> Whole(150),
                      am_fasting_glucose |-> Whole(85)]
        /\ response[r].beam_value = 6500

\* C3: with unit mmol/L both readings are multiplied by 18 before the
\* subtraction and the returned beam_value is round(18*a - 18*b, 2).
C3_MmolL ==
    \A r \in Requests :
        (Succeeded(r) /\ data[r].unit = "mmol/L") =>
            /\ conversion_factor[r] = << 18 >>
            /\ response[r].beam_value =
                   Round2(18 * data[r].bedtime_glucose - 18 * data[r].am_fasting_glucose)

C3_Witness ==
    \E r \in Requests :
        /\ Succeeded(r)
        /\ data[r] = [unit |-> "mmol/L", bedtime_glucose |-> Whole(6) + Scale \div 8,
                      am_fasting_glucose |-> Whole(5)]
        /\ response[r].beam_value = 2025

\* C4: the thresholds are strict: a converted difference above 20 gets the
\* dawn label and only such a one, a difference below -20 gets the
\* hypoglycemia label and only such a one, and every difference in [-20, 20],
\* exactly 20 and exactly -20 included, gets the well-controlled label.
C4_StrictThresholds ==
    \A r \in Requests :
        Succeeded(r) =>
            LET d == ConvertedDifference(data[r])
                label == response[r].interpretation
            IN  /\ (label = Dawn) <=> (d > Whole(Threshold))
                /\ (label = Hypo) <=> (d < Whole(-Threshold))
                /\ (d >= Whole(-Threshold) /\ d <= Whole(Threshold)) =>
                       label = WellControlled

\* One request with a difference of exactly 20, answered well-controlled, and
\* one whose returned value is -20.01, answered nocturnal hypoglycemia.
C4_Witness ==
    \E r1, r2 \in Requests :
        /\ Succeeded(r1) /\ Succeeded(r2)
        /\ ConvertedDifference(data[r1]) = Whole(Threshold)
        /\ response[r1].beam_value = 2000
        /\ response[r1].interpretation = WellControlled
        /\ response[r2].beam_value = -2001
        /\ response[r2].interpretation = Hypo

\* C5: a request with a reading <= 0 or a unit other than 'mg/dL' and
\* 'mmol/L' is rejected with a client error that carries no beam_value and no
\* interpretation, and no step of the handler is taken for it.
InvalidRequest(form) ==
    \/ form.bedtime_glucose <= 0
    \/ form.am_fasting_glucose <= 0
    \/ form.unit \notin {"mg/dL", "mmol/L"}

C5_InvalidRejected ==
    \A r \in Requests :
        (pc[r] # "idle" /\ InvalidRequest(data[r])) =>
            /\ pc[r] = "rejected"
            /\ response[r].status \in 400 .. 499
            /\ "beam_value" \notin DOMAIN response[r]
            /\ "interpretation" \notin DOMAIN response[r]
            /\ conversion_factor[r] = None

\* A rejected 'mol/L' request and a rejected request with bedtime_glucose = 0.
C5_Witness ==
    \E r1, r2 \in Requests :
        /\ pc[r1] = "rejected" /\ pc[r2] = "rejected"
        /\ data[r1].unit = "mol/L"
        /\ data[r1].bedtime_glucose > 0 /\ data[r1].am_fasting_glucose > 0
        /\ data[r2].unit = "mg/dL"
        /\ data[r2].bedtime_glucose = 0 /\ data[r2].am_fasting_glucose > 0

\* C6: readings a, b in mmol/L get the response that 18*a, 18*b in mg/dL get.
C6_UnitInvariance ==
    \A r1, r2 \in Requests :
        ( /\ Succeeded(r1) /\ Succeeded(r2)
          /\ data[r1].unit = "mmol/L" /\ data[r2].unit = "mg/dL"
          /\ data[r2].bedtime_glucose = 18 * data[r1].bedtime_glucose
          /\ data[r2].am_fasting_glucose = 18 * data[r1].am_fasting_glucose )
        => response[r1] = response[r2]

\* 6.125 and 5 mmol/L beside 110.25 and 90 mg/dL: 20.25, dawn phenomenon.
C6_Witness ==
    \E r1, r2 \in Requests :
        /\ Succeeded(r1) /\ Succeeded(r2)
        /\ data[r1] = [unit |-> "mmol/L", bedtime_glucose |-> Whole(6) + Scale \div 8,
                       am_fasting_glucose |-> Whole(5)]
        /\ data[r2] = [unit |-> "mg/dL", bedtime_glucose |-> Whole(110) + Scale \div 4,
                       am_fasting_glucose |-> Whole(90)]
        /\ response[r1].interpretation = Dawn

\* C7: under every interleaving a request's outcome is decided by its own
\* form alone, so equal forms get equal outcomes, and a step of one request
\* leaves every other request's state as it was.
Finished(r) == pc[r] \in {"rejected", "raised", "done"}

OwnState(r) == << pc[r], data[r], conversion_factor[r], beam_value[r], response[r] >>

C7_OutcomeOfOwnForm ==
    /\ \A r \in Requests :
           Succeeded(r) =>
               response[r] =
                   [status |-> 200,
                    beam_value |-> Round2(ConvertedDifference(data[r])),
                    interpretation |-> Interpret(ConvertedDifference(data[r]))]
    /\ \A r1, r2 \in Requests :
           (Finished(r1) /\ Finished(r2) /\ data[r1] = data[r2]) =>
               response[r1] = response[r2]

C7_StepsOwnStateOnly ==
    \A r1, r2 \in Requests :
        (r1 # r2 /\ OwnState(r1)' # OwnState(r1)) => OwnState(r2)' = OwnState(r2)

C7_Independent == [] C7_OutcomeOfOwnForm /\ [][C7_StepsOwnStateOnly]_vars

\* Two calls in flight with different units: one returned, the other between
\* its lookup and its computation.
C7_Witness ==
    \E r1, r2 \in Requests :
        /\ pc[r1] = "done" /\ data[r1].unit = "mmol/L"
        /\ pc[r2] = "converting" /\ data[r2].unit = "mg/dL"
        /\ data[r1].bedtime_glucose # data[r1].am_fasting_glucose

\* C8: a successful response holds a beam_value and an interpretation, the
\* interpretation is one of the three labels, and exactly one of the three
\* cases applies to the request.
C8_ClosedLabels ==
    /\ Cardinality(Labels) = 3
    /\ \A r \in Requests :
           Succeeded(r) =>
               LET d == ConvertedDifference(data[r])
               IN  /\ {"beam_value", "interpretation"} \subseteq DOMAIN response[r]
                   /\ response[r].beam_value \in Int
                   /\ response[r].interpretation \in Labels
                   /\ Cardinality({ l \in Labels :
                          \/ l = Dawn /\ d > Whole(Threshold)
                          \/ l = Hypo /\ d < Whole(-Threshold)
                          \/ l = WellControlled /\ d >= Whole(-Threshold)
                                                /\ d <= Whole(Threshold) }) = 1

C8_Witness ==
    \E r1, r2 \in Requests :
        /\ Succeeded(r1) /\ response[r1].interpretation = Hypo
        /\ Succeeded(r2) /\ response[r2].interpretation = WellControlled
        /\ ConvertedDifference(data[r2]) = Whole(Threshold)

\* C9: a request that passed validation finds its factor, never takes the
\* HTTP 400 branch and ends with a successful response; the schema's units
\* are the keys of conversion_factors.
C9_NoInvalidUnitBranch ==
    /\ SchemaUnits = DOMAIN conversion_factors
    /\ \A r \in Requests :
           /\ pc[r] # "raised"
           /\ response[r].status # 400
           /\ pc[r] \in {"converting", "done"} => conversion_factor[r] # None
           /\ pc[r] = "done" => response[r].status = 200

C9_Totality ==
    /\ [] C9_NoInvalidUnitBranch
    /\ \A r \in Requests : (pc[r] = "called") ~> (pc[r] = "done")

C9_Witness ==
    \E r \in Requests :
        /\ pc[r] = "done" /\ BeAMFormInput(data[r])
        /\ data[r].unit = "mmol/L" /\ response[r].status = 200

\* C10: exchanging the two readings negates the returned beam_value and
\* exchanges the dawn and hypoglycemia labels; equal readings give 0 and the
\* well-controlled label.
C10_Antisymmetry ==
    /\ \A r1, r2 \in Requests :
           ( /\ Succeeded(r1) /\ Succeeded(r2)
             /\ data[r1].unit = data[r2].unit
             /\ data[r1].bedtime_glucose = data[r2].am_fasting_glucose
             /\ data[r1].am_fasting_glucose = data[r2].bedtime_glucose )
           => /\ response[r2].beam_value = -response[r1].beam_value
              /\ response[r2].interpretation = Mirror(response[r1].interpretation)
    /\ \A r \in Requests :
           (Succeeded(r) /\ data[r].bedtime_glucose = data[r].am_fasting_glucose) =>
               /\ response[r].beam_value = 0
               /\ response[r].interpretation = WellControlled

\* 6.125 and 5 mg/dL both ways round: a difference of 1.125, a tie of the
\* rounding, returned as 1.12 and -1.12.
C10_Witness ==
    \E r1, r2 \in Requests :
        /\ Succeeded(r1) /\ Succeeded(r2)
        /\ data[r1] = [unit |-> "mg/dL", bedtime_glucose |-> Whole(6) + Scale \div 8,
                       am_fasting_glucose |-> Whole(5)]
        /\ data[r2] = [unit |-> "mg/dL", bedtime_glucose |-> Whole(5),
                       am_fasting_glucose |-> Whole(6) + Scale \div 8]
        /\ response[r1].beam_value = 112
        /\ response[r2].beam_value = -112

====
